---- MODULE Spec2Model ----
(***************************************************************************)
(* Lifecycle and concurrency core of the Split OpenFeature provider:       *)
(* InitWithContext, ShutdownWithContext, Status, the readiness goroutine,  *)
(* the destroy goroutine, the change monitor and the event channel.        *)
(*                                                                         *)
(* Granularity.  Every section the code runs under p.mtx contains no       *)
(* blocking operation, so each such section is one atomic step.  Blocking  *)
(* operations (initMu.Lock, select, initWg.Wait) are guards of the step    *)
(* that follows them.  The Split SDK (factory.IsReady, BlockUntilReady,    *)
(* Destroy, manager.Splits) is the environment: it becomes ready on its    *)
(* own schedule, independently of any Init call.                           *)
(*                                                                         *)
(* p.initMu is held for the whole of InitWithContext, so at most one       *)
(* caller is ever inside initGroup.Do: the singleflight group never has a  *)
(* second caller to attach, and Do runs its function directly.             *)
(***************************************************************************)
EXTENDS Integers, Sequences, FiniteSets, TLC

\* ---- bounds ----
NInit == 2
NShut == 2
MaxVer == 1
EventCap == 2
MaxRequested == 60
MaxChange == 2

InitIds ==
    1..NInit
ShutIds ==
    1..NShut

\* ---- program constants ----
shutdownStateActive == 1
shutdownStateInactive == 0
eventChannelBuffer == 128
\* TestEventChannelOverflow: the number of events of the overflow scenario
eventsToEmit == 150
\* Durations are counted in whole seconds.
defaultMonitoringInterval == 30
minMonitoringInterval == 5

VARIABLES
    sdkReady,        \* factory.IsReady() of the Split SDK (before Destroy)
    sdkDestroyed,    \* client.Destroy() has run
    sdkVer,          \* change number of the SDK's split definitions
    shutdown,        \* p.shutdown (atomic uint32)
    client,          \* p.client: "set" or "nil"
    eventStream,     \* p.eventStream: buffered events
    eventClosed,     \* number of close(p.eventStream) executed
    stopClosed,      \* number of close(p.stopMonitor) executed
    monitorDone,     \* number of close(p.monitorDone) executed
    initMu,          \* p.initMu: <<>> free, <<"init", i>> or <<"shut", j>>
    initWg,          \* p.initWg counter
    initPc, initCtx, initRes, initVia, initAfterShut,
    readyErr,        \* readyErr channel of call i: "empty", "nil", "err"
    burPc, burVal,   \* readiness goroutine spawned by call i
    burSpawned,      \* number of BlockUntilReady calls made
    monitorPc, lastKnownSplits,
    monitorStarted,  \* number of `go p.monitorSplitUpdates()` executed
    shutPc, shutCtx, shutRes, shutdownErr, wasInitialized, casWon,
    expiredOnReady,  \* call j entered on a Ready provider, its ctx already done
    destroyPc, destroyCalls,
    statusPc, statusShutdown, statusRes,
    mtxReaders,      \* p.mtx: number of read locks held across a step
    evalPc,          \* position of a flag evaluation
    evalRes,         \* error code or reason of the last evaluation
    evalCtx,         \* the context of the evaluation is done
    evalKey,         \* kind of targeting key of the evaluation
    trackPc,         \* position of a Track call
    panics,          \* operations that ended in a runtime panic
    published,       \* emitEvent calls made by the overflow scenario
    metricsPc,       \* position of a Metrics() call
    metricsShutdown, \* the shutdown flag as that call loaded it
    metricsRes,      \* the map that call returned
    newPc,           \* New() has yet to choose the monitoring interval
    cfgMonitoringInterval,  \* the interval the caller asked for, in seconds
    monitoringInterval,     \* the interval the provider uses, in seconds
    comparePc,       \* a call of splitsChanged has yet to run
    oldSplits,       \* its first argument: name -> change number
    currentSplits,   \* its second argument
    changed,         \* its result
    mtxWriter        \* the goroutine inside p.mtx.Lock(), if it took the
                     \* lock in a step of its own

sdkVars ==
    <<sdkReady, sdkDestroyed, sdkVer>>
chanVars ==
    <<eventStream, eventClosed, stopClosed, monitorDone>>
initVars ==
    <<initPc, initCtx, initRes, initVia, initAfterShut>>
burVars ==
    <<readyErr, burPc, burVal, burSpawned, initWg>>
monVars ==
    <<monitorPc, lastKnownSplits, monitorStarted>>
shutVars ==
    <<shutPc, shutCtx, shutRes, shutdownErr, wasInitialized, casWon,
      expiredOnReady>>
destroyVars ==
    <<destroyPc, destroyCalls, client>>
statusVars ==
    <<statusPc, statusShutdown, statusRes>>
evalVars ==
    <<evalPc, evalRes, evalCtx, evalKey>>
compareVars ==
    <<comparePc, oldSplits, currentSplits, changed>>
configVars ==
    <<newPc, cfgMonitoringInterval, monitoringInterval>>
metricsVars ==
    <<metricsPc, metricsShutdown, metricsRes>>
readVars ==
    <<mtxReaders, evalVars, trackPc, panics, published, metricsVars>>

vars ==
    <<sdkReady, sdkDestroyed, sdkVer, shutdown, client, eventStream,
      eventClosed, stopClosed, monitorDone, initMu, initWg,
      initPc, initCtx, initRes, initVia, initAfterShut,
      readyErr, burPc, burVal, burSpawned,
      monitorPc, lastKnownSplits, monitorStarted,
      shutPc, shutCtx, shutRes, shutdownErr, wasInitialized, casWon,
      expiredOnReady, destroyPc, destroyCalls,
      statusPc, statusShutdown, statusRes,
      mtxReaders, evalPc, evalRes, evalCtx, evalKey, trackPc, panics,
      published, metricsPc, metricsShutdown, metricsRes, newPc,
      cfgMonitoringInterval, monitoringInterval, comparePc, oldSplits,
      currentSplits, changed, mtxWriter>>

\* ---- the provider after New() ----

\* No Metrics() call has returned yet.
NoMetrics ==
    [initialized |-> FALSE, status |-> "none", ready |-> FALSE,
     splits_count |-> FALSE]

\* New(): the monitoring interval without the minimum.
EffectiveInterval_NoMinimum(requested) ==
    IF requested = 0 THEN defaultMonitoringInterval ELSE requested

\* New(): the monitoring interval chosen for a requested one.
EffectiveInterval(requested) ==
    IF requested = 0 THEN defaultMonitoringInterval
    ELSE IF requested < minMonitoringInterval THEN minMonitoringInterval
    ELSE requested

\* Everything of the provider but its monitoring interval.
Constructed ==
    /\ sdkReady = FALSE
    /\ sdkDestroyed = FALSE
    /\ sdkVer = 0
    /\ shutdown = shutdownStateInactive
    /\ client = "set"
    /\ eventStream = <<>>
    /\ eventClosed = 0
    /\ stopClosed = 0
    /\ monitorDone = 0
    /\ initMu = <<>>
    /\ initWg = 0
    /\ initPc = [i \in InitIds |-> "idle"]
    /\ initCtx = [i \in InitIds |-> FALSE]
    /\ initRes = [i \in InitIds |-> "none"]
    /\ initVia = [i \in InitIds |-> "none"]
    /\ initAfterShut = [i \in InitIds |-> FALSE]
    /\ readyErr = [i \in InitIds |-> "empty"]
    /\ burPc = [i \in InitIds |-> "none"]
    /\ burVal = [i \in InitIds |-> "none"]
    /\ burSpawned = 0
    /\ monitorPc = "none"
    /\ lastKnownSplits = 0
    /\ monitorStarted = 0
    /\ shutPc = [j \in ShutIds |-> "idle"]
    /\ shutCtx = [j \in ShutIds |-> FALSE]
    /\ shutRes = [j \in ShutIds |-> "none"]
    /\ shutdownErr = [j \in ShutIds |-> "nil"]
    /\ wasInitialized = [j \in ShutIds |-> FALSE]
    /\ casWon = [j \in ShutIds |-> FALSE]
    /\ expiredOnReady = [j \in ShutIds |-> FALSE]
    /\ destroyPc = "none"
    /\ destroyCalls = 0
    /\ statusPc = "idle"
    /\ statusShutdown = FALSE
    /\ statusRes = "none"
    /\ mtxReaders = 0
    /\ evalPc = "idle"
    /\ evalRes = "none"
    /\ evalCtx = FALSE
    /\ evalKey = "string"
    /\ trackPc = "idle"
    /\ panics = {}
    /\ published = 0
    /\ metricsPc = "idle"
    /\ metricsShutdown = FALSE
    /\ metricsRes = NoMetrics
    /\ mtxWriter = <<>>

\* New() has run without WithMonitoringInterval.
DefaultConfig ==
    /\ newPc = "done"
    /\ cfgMonitoringInterval = 0
    /\ monitoringInterval = defaultMonitoringInterval

\* No call of splitsChanged is under observation.
NoCompare ==
    /\ comparePc = "done"
    /\ oldSplits = <<>>
    /\ currentSplits = <<>>
    /\ changed = FALSE

\* A provider made by New() without WithMonitoringInterval.
Init ==
    /\ Constructed
    /\ DefaultConfig
    /\ NoCompare

\* The intervals a caller may pass to WithMonitoringInterval.
RequestedIntervals ==
    (0 - MaxRequested)..MaxRequested

\* New() at the point where it has its configuration and has yet to apply
\* the default and the minimum.
InitConfig ==
    /\ Constructed
    /\ newPc = "config"
    /\ cfgMonitoringInterval \in RequestedIntervals
    /\ monitoringInterval = cfgMonitoringInterval
    /\ NoCompare

\* New(): "Apply monitoring interval defaults and minimum".
NewInterval ==
    /\ newPc = "config"
    /\ monitoringInterval' = EffectiveInterval(monitoringInterval)
    /\ newPc' = "done"
    /\ UNCHANGED <<sdkVars, shutdown, initMu, chanVars, initVars, burVars,
                   monVars, shutVars, destroyVars, statusVars, readVars,
                   cfgMonitoringInterval, compareVars, mtxWriter>>

\* ---- Split SDK (environment) ----

\* factory.IsReady(): the SDK reports ready once its first sync finished and
\* until it is destroyed.
FactoryIsReady ==
    sdkReady /\ ~sdkDestroyed

\* The SDK finishes its initial synchronisation (started by NewSplitFactory).
SdkBecomesReady ==
    /\ ~sdkReady
    /\ ~sdkDestroyed
    /\ sdkReady' = TRUE
    /\ UNCHANGED <<sdkDestroyed, sdkVer, shutdown, initMu, chanVars, initVars,
                   burVars, monVars, shutVars, destroyVars, statusVars,
                   readVars, configVars, compareVars, mtxWriter>>

\* The SDK receives changed split definitions.
SdkUpdate ==
    /\ FactoryIsReady
    /\ sdkVer < MaxVer
    /\ sdkVer' = sdkVer + 1
    /\ UNCHANGED <<sdkReady, sdkDestroyed, shutdown, initMu, chanVars,
                   initVars, burVars, monVars, shutVars, destroyVars,
                   statusVars, readVars, configVars, compareVars, mtxWriter>>

\* ---- event channel ----

\* The send without its default case and without a bound on the buffer.
ChannelSend_Unbounded(e) ==
    eventStream' = Append(eventStream, e)

\* select { case p.eventStream <- *event: default: }: the event is dropped
\* when the buffer is full.
ChannelSend(e) ==
    IF Len(eventStream) < EventCap
    THEN eventStream' = Append(eventStream, e)
    ELSE eventStream' = eventStream

\* The send without its default case.
ChannelSendNoDrop(e, cap) ==
    eventStream' = Append(eventStream, e)

\* The same send on the channel as New() makes it, with its real capacity.
ChannelSendCap(e, cap) ==
    IF Len(eventStream) < cap
    THEN eventStream' = Append(eventStream, e)
    ELSE eventStream' = eventStream

\* emitEvent as one step of its caller (the read-lock section cannot
\* interleave with a write-lock section): nothing when shut down, otherwise
\* the non-blocking send.
EmitEvent(e) ==
    IF shutdown = shutdownStateActive
    THEN eventStream' = eventStream
    ELSE ChannelSend(e)

\* A subscriber receives the next event from EventChannel().
EventReceive ==
    /\ eventStream # <<>>
    /\ eventStream' = Tail(eventStream)
    /\ UNCHANGED <<sdkVars, shutdown, initMu, eventClosed, stopClosed,
                   monitorDone, initVars, burVars, monVars, shutVars,
                   destroyVars, statusVars, readVars, configVars, compareVars,
                   mtxWriter>>

\* ---- p.mtx ----

\* p.mtx.Lock() has returned for goroutine who: it took the lock in an earlier
\* step, or takes it now, no reader and no writer holding it.
MtxLocked(who) ==
    \/ mtxWriter = who
    \/ mtxWriter = <<>> /\ mtxReaders = 0

\* p.mtx.Lock() as a step of its own: the goroutine holds the lock and has
\* yet to run its section.
MtxLock(who) ==
    /\ mtxWriter = <<>>
    /\ mtxReaders = 0
    /\ mtxWriter' = who
    /\ UNCHANGED <<sdkVars, shutdown, initMu, chanVars, initVars, burVars,
                   monVars, shutVars, destroyVars, statusVars, readVars,
                   configVars, compareVars>>

InitMtxLock(i) ==
    initPc[i] = "locked" /\ MtxLock(<<"init", i>>)

ShutMtxLock(j) ==
    shutPc[j] = "stopMonitor" /\ MtxLock(<<"shut", j>>)

DestroyMtxLock ==
    destroyPc = "lock" /\ MtxLock(<<"destroy", 0>>)

\* ---- InitWithContext ----

\* The readiness test answering "not ready" whatever the factory reports.
AlreadyInitialized_Never ==
    FALSE

\* The readiness test of the fast path and of the double-check inside Do:
\* p.factory != nil && p.factory.IsReady() (p.factory is never reassigned).
AlreadyInitialized ==
    FactoryIsReady

\* return from InitWithContext: the deferred p.initMu.Unlock() runs, and the
\* call's context is of no further interest.  initVia records the path the
\* call took through its readiness checks and its select.
InitReturn(i, r, via) ==
    /\ initPc' = [initPc EXCEPT ![i] = "returned"]
    /\ initCtx' = [initCtx EXCEPT ![i] = FALSE]
    /\ initRes' = [initRes EXCEPT ![i] = r]
    /\ initVia' = [initVia EXCEPT ![i] = via]
    /\ initMu' = <<>>

\* A caller enters InitWithContext(ctx, _); ctx may already be done.  Callers
\* are interchangeable, so they enter in the order of their ids.
InitCall(i) ==
    /\ initPc[i] = "idle"
    /\ IF i = 1 THEN TRUE ELSE initPc[i - 1] # "idle"
    /\ \E expired \in BOOLEAN : initCtx' = [initCtx EXCEPT ![i] = expired]
    /\ initPc' = [initPc EXCEPT ![i] = "lockInitMu"]
    /\ initAfterShut' = [initAfterShut EXCEPT ![i] = (shutdown = shutdownStateActive)]
    /\ UNCHANGED <<sdkVars, shutdown, initMu, chanVars, initRes, initVia,
                   burVars, monVars, shutVars, destroyVars, statusVars,
                   readVars, configVars, compareVars, mtxWriter>>

\* The context of an Init call in progress is cancelled or reaches its deadline.
InitCtxDone(i) ==
    /\ initPc[i] \in {"lockInitMu", "do", "select"}
    /\ ~initCtx[i]
    /\ initCtx' = [initCtx EXCEPT ![i] = TRUE]
    /\ UNCHANGED <<sdkVars, shutdown, initMu, chanVars, initPc, initRes,
                   initVia, initAfterShut, burVars, monVars, shutVars,
                   destroyVars, statusVars, readVars, configVars, compareVars,
                   mtxWriter>>

\* The call moves on to its next step without returning.
InitGoto(i, pc, via) ==
    /\ initPc' = [initPc EXCEPT ![i] = pc]
    /\ initVia' = [initVia EXCEPT ![i] = via]
    /\ UNCHANGED <<initCtx, initRes>>

\* InitAcquire without the fast path.
InitAcquire_NoFastPath(i) ==
    /\ initPc[i] = "lockInitMu"
    /\ shutdown = shutdownStateActive \/ mtxWriter = <<>>
    /\ initMu = <<>>
    /\ IF shutdown = shutdownStateActive
       THEN InitReturn(i, "alreadyShutdown", "shutdownCheck")
       ELSE /\ initMu' = <<"init", i>>
            /\ InitGoto(i, "do", initVia[i])
    /\ UNCHANGED <<sdkVars, shutdown, chanVars, initAfterShut, burVars,
                   monVars, shutVars, destroyVars, statusVars, readVars,
                   configVars, compareVars, mtxWriter>>

\* p.initMu.Lock(); shutdown check; fast path under the read lock.
InitAcquire(i) ==
    /\ initPc[i] = "lockInitMu"
    /\ shutdown = shutdownStateActive \/ mtxWriter = <<>>
    /\ initMu = <<>>
    /\ IF shutdown = shutdownStateActive
       THEN InitReturn(i, "alreadyShutdown", "shutdownCheck")
       ELSE IF AlreadyInitialized
            THEN InitReturn(i, "nil", "fastPath")
            ELSE /\ initMu' = <<"init", i>>
                 /\ InitGoto(i, "do", initVia[i])
    /\ UNCHANGED <<sdkVars, shutdown, chanVars, initAfterShut, burVars,
                   monVars, shutVars, destroyVars, statusVars, readVars,
                   configVars, compareVars, mtxWriter>>

\* initGroup.Do: double-check, then make readyErr, initWg.Add(1) and spawn the
\* goroutine that calls BlockUntilReady.
InitDo(i) ==
    /\ initPc[i] = "do"
    /\ mtxWriter = <<>>
    /\ IF AlreadyInitialized
       THEN /\ InitReturn(i, "nil", "doubleCheck")
            /\ UNCHANGED burVars
       ELSE /\ initWg' = initWg + 1
            /\ burPc' = [burPc EXCEPT ![i] = "running"]
            /\ burSpawned' = burSpawned + 1
            /\ InitGoto(i, "select", initVia[i])
            /\ UNCHANGED <<readyErr, burVal, initMu>>
    /\ UNCHANGED <<sdkVars, shutdown, chanVars, initAfterShut, monVars,
                   shutVars, destroyVars, statusVars, readVars, configVars,
                   compareVars, mtxWriter>>

\* What Init does with a result received from readyErr (either select branch).
InitReceived(i, via) ==
    IF readyErr[i] = "err"
    THEN /\ EmitEvent("PROVIDER_ERROR")
         /\ InitReturn(i, "notReady", via)
    ELSE /\ InitGoto(i, "locked", via)
         /\ UNCHANGED <<eventStream, initMu>>

\* select, case err := <-readyErr
InitSelectReady(i) ==
    /\ initPc[i] = "select"
    /\ readyErr[i] # "empty"
    /\ InitReceived(i, "readyBranch")
    /\ readyErr' = [readyErr EXCEPT ![i] = "empty"]
    /\ UNCHANGED <<sdkVars, shutdown, eventClosed, stopClosed, monitorDone,
                   initAfterShut, burPc, burVal, burSpawned, initWg, monVars,
                   shutVars, destroyVars, statusVars, readVars, configVars,
                   compareVars, mtxWriter>>

\* The ctx.Done() branch without its inner select: cancelled at once.
InitCtxBranch_NoRecheck(i) ==
    /\ EmitEvent("PROVIDER_ERROR")
    /\ InitReturn(i, "canceled", "ctxBranch")
    /\ UNCHANGED readyErr

\* The ctx.Done() branch that uses a delivered success only: a delivered
\* failure is reported as a cancellation.
InitCtxBranch_FailureAsCancel(i) ==
    IF readyErr[i] = "nil"
    THEN /\ InitReceived(i, "ctxBranch")
         /\ readyErr' = [readyErr EXCEPT ![i] = "empty"]
    ELSE /\ EmitEvent("PROVIDER_ERROR")
         /\ InitReturn(i, "canceled", "ctxBranch")
         /\ readyErr' = [readyErr EXCEPT ![i] = "empty"]

\* The inner select of the ctx.Done() branch: a result that is already in
\* readyErr is used, otherwise the call is cancelled.
InitCtxBranch(i) ==
    IF readyErr[i] # "empty"
    THEN /\ InitReceived(i, "ctxBranch")
         /\ readyErr' = [readyErr EXCEPT ![i] = "empty"]
    ELSE /\ EmitEvent("PROVIDER_ERROR")
         /\ InitReturn(i, "canceled", "ctxBranch")
         /\ UNCHANGED readyErr

\* select, case <-ctx.Done()
InitSelectCtx(i) ==
    /\ initPc[i] = "select"
    /\ initCtx[i]
    /\ InitCtxBranch(i)
    /\ UNCHANGED <<sdkVars, shutdown, eventClosed, stopClosed, monitorDone,
                   initAfterShut, burPc, burVal, burSpawned, initWg, monVars,
                   shutVars, destroyVars, statusVars, readVars, configVars,
                   compareVars, mtxWriter>>

\* The section under p.mtx.Lock() with the goroutine started before the
\* shutdown check.
InitLocked_StartFirst(i) ==
    /\ initPc[i] = "locked"
    /\ MtxLocked(<<"init", i>>)
    /\ mtxWriter' = <<>>
    /\ monitorPc' = "start"
    /\ monitorStarted' = monitorStarted + 1
    /\ IF shutdown = shutdownStateActive
       THEN InitReturn(i, "shutDuringInit", initVia[i])
       ELSE InitGoto(i, "emitReady", initVia[i]) /\ UNCHANGED initMu
    /\ UNCHANGED <<sdkVars, shutdown, chanVars, lastKnownSplits,
                   initAfterShut, burVars, shutVars, destroyVars, statusVars,
                   readVars, configVars, compareVars>>

\* The section under p.mtx.Lock() without its shutdown check.
InitLocked_NoShutdownCheck(i) ==
    /\ initPc[i] = "locked"
    /\ MtxLocked(<<"init", i>>)
    /\ mtxWriter' = <<>>
    /\ IF ~FactoryIsReady
       THEN /\ EmitEvent("PROVIDER_ERROR")
            /\ InitReturn(i, "factoryNotReady", initVia[i])
            /\ UNCHANGED monVars
       ELSE /\ monitorPc' = "start"
            /\ monitorStarted' = monitorStarted + 1
            /\ InitGoto(i, "emitReady", initVia[i])
            /\ UNCHANGED <<eventStream, lastKnownSplits, initMu>>
    /\ UNCHANGED <<sdkVars, shutdown, eventClosed, stopClosed, monitorDone,
                   initAfterShut, burVars, shutVars, destroyVars, statusVars,
                   readVars, configVars, compareVars>>

\* The section under p.mtx.Lock(): shutdown check, factory check and
\* `go p.monitorSplitUpdates()`.
InitLocked(i) ==
    /\ initPc[i] = "locked"
    /\ MtxLocked(<<"init", i>>)
    /\ mtxWriter' = <<>>
    /\ IF shutdown = shutdownStateActive
       THEN /\ InitReturn(i, "shutDuringInit", initVia[i])
            /\ UNCHANGED <<eventStream, monVars>>
       ELSE IF ~FactoryIsReady
            THEN /\ EmitEvent("PROVIDER_ERROR")
                 /\ InitReturn(i, "factoryNotReady", initVia[i])
                 /\ UNCHANGED monVars
            ELSE /\ monitorPc' = "start"
                 /\ monitorStarted' = monitorStarted + 1
                 /\ InitGoto(i, "emitReady", initVia[i])
                 /\ UNCHANGED <<eventStream, lastKnownSplits, initMu>>
    /\ UNCHANGED <<sdkVars, shutdown, eventClosed, stopClosed, monitorDone,
                   initAfterShut, burVars, shutVars, destroyVars, statusVars,
                   readVars, configVars, compareVars>>

\* The successful return without its emitEvent call.
InitEmitReady_NoEmit(i) ==
    /\ initPc[i] = "emitReady"
    /\ InitReturn(i, "nil", initVia[i])
    /\ UNCHANGED <<sdkVars, shutdown, chanVars, initAfterShut, burVars,
                   monVars, shutVars, destroyVars, statusVars, readVars,
                   configVars, compareVars, mtxWriter>>

\* emitEvent(PROVIDER_READY) and return nil.
InitEmitReady(i) ==
    /\ initPc[i] = "emitReady"
    /\ EmitEvent("PROVIDER_READY")
    /\ InitReturn(i, "nil", initVia[i])
    /\ UNCHANGED <<sdkVars, shutdown, eventClosed, stopClosed, monitorDone,
                   initAfterShut, burVars, monVars, shutVars, destroyVars,
                   statusVars, readVars, configVars, compareVars, mtxWriter>>

\* ---- the readiness goroutine of call i ----

\* p.client.BlockUntilReady returns: nil when the SDK is ready, its timeout
\* error otherwise.
BurReturn(i) ==
    /\ burPc[i] = "running"
    /\ burPc' = [burPc EXCEPT ![i] = "returned"]
    /\ burVal' = [burVal EXCEPT ![i] = IF FactoryIsReady THEN "nil" ELSE "err"]
    /\ UNCHANGED <<sdkVars, shutdown, initMu, chanVars, initVars, readyErr,
                   burSpawned, initWg, monVars, shutVars, destroyVars,
                   statusVars, readVars, configVars, compareVars, mtxWriter>>

\* readyErr made without a buffer: the send waits for Init to be receiving.
BurSend_Unbuffered(i) ==
    /\ burPc[i] = "returned"
    /\ initPc[i] = "select"
    /\ readyErr[i] = "empty"
    /\ readyErr' = [readyErr EXCEPT ![i] = burVal[i]]
    /\ burPc' = [burPc EXCEPT ![i] = "sent"]
    /\ UNCHANGED <<sdkVars, shutdown, initMu, chanVars, initVars, burVal,
                   burSpawned, initWg, monVars, shutVars, destroyVars,
                   statusVars, readVars, configVars, compareVars, mtxWriter>>

\* readyErr <- result: the channel has one slot and one sender.
BurSend(i) ==
    /\ burPc[i] = "returned"
    /\ readyErr[i] = "empty"
    /\ readyErr' = [readyErr EXCEPT ![i] = burVal[i]]
    /\ burPc' = [burPc EXCEPT ![i] = "sent"]
    /\ UNCHANGED <<sdkVars, shutdown, initMu, chanVars, initVars, burVal,
                   burSpawned, initWg, monVars, shutVars, destroyVars,
                   statusVars, readVars, configVars, compareVars, mtxWriter>>

\* defer p.initWg.Done()
BurDone(i) ==
    /\ burPc[i] = "sent"
    /\ burPc' = [burPc EXCEPT ![i] = "done"]
    /\ initWg' = initWg - 1
    /\ UNCHANGED <<sdkVars, shutdown, initMu, chanVars, initVars, readyErr,
                   burVal, burSpawned, monVars, shutVars, destroyVars,
                   statusVars, readVars, configVars, compareVars, mtxWriter>>

\* ---- monitorSplitUpdates ----

\* The names of the split definitions and the maps name -> change number.
SplitNames ==
    {"a", "b"}
SplitMaps ==
    UNION {[names -> 1..MaxChange] : names \in SUBSET SplitNames}

\* splitsChanged without its comparison of the sizes.
splitsChanged_NoLengthCheck(old, current) ==
    \E name \in DOMAIN current :
        name \notin DOMAIN old \/ old[name] # current[name]

\* splitsChanged(old, current): the sizes differ, or a name of current is
\* absent from old or has another change number there.
splitsChanged(old, current) ==
    IF Cardinality(DOMAIN old) # Cardinality(DOMAIN current)
    THEN TRUE
    ELSE \E name \in DOMAIN current :
            name \notin DOMAIN old \/ old[name] # current[name]

\* The snapshot the monitor takes of an SDK whose one definition has change
\* number v.
Snapshot(v) ==
    [name \in {"a"} |-> v]

\* A call of splitsChanged on two maps.
CompareSplits ==
    /\ comparePc = "call"
    /\ changed' = splitsChanged(oldSplits, currentSplits)
    /\ comparePc' = "done"
    /\ UNCHANGED <<sdkVars, shutdown, initMu, chanVars, initVars, burVars,
                   monVars, shutVars, destroyVars, statusVars, readVars,
                   configVars, oldSplits, currentSplits, mtxWriter>>

\* The goroutine runs its prologue: baseline snapshot under the read lock.
MonitorStart ==
    /\ monitorPc = "start"
    /\ mtxWriter = <<>>
    /\ lastKnownSplits' = sdkVer
    /\ monitorPc' = "loop"
    /\ UNCHANGED <<sdkVars, shutdown, initMu, chanVars, initVars, burVars,
                   monitorStarted, shutVars, destroyVars, statusVars, readVars,
                   configVars, compareVars, mtxWriter>>

\* The tick that emits on a change and keeps its old baseline.
MonitorTick_KeepsBaseline ==
    /\ monitorPc = "loop"
    /\ mtxWriter = <<>>
    /\ IF splitsChanged(Snapshot(lastKnownSplits), Snapshot(sdkVer))
       THEN monitorPc' = "emitCheck"
       ELSE UNCHANGED monitorPc
    /\ UNCHANGED <<sdkVars, shutdown, initMu, chanVars, initVars, burVars,
                   lastKnownSplits, monitorStarted, shutVars, destroyVars,
                   statusVars, readVars, configVars, compareVars, mtxWriter>>

\* select, case <-ticker.C: poll under the read lock and compare; on a change
\* the goroutine enters emitEvent and replaces its baseline.
MonitorTick ==
    /\ monitorPc = "loop"
    /\ mtxWriter = <<>>
    /\ IF splitsChanged(Snapshot(lastKnownSplits), Snapshot(sdkVer))
       THEN /\ monitorPc' = "emitCheck"
            /\ lastKnownSplits' = sdkVer
       ELSE UNCHANGED <<monitorPc, lastKnownSplits>>
    /\ UNCHANGED <<sdkVars, shutdown, initMu, chanVars, initVars, burVars,
                   monitorStarted, shutVars, destroyVars, statusVars, readVars,
                   configVars, compareVars, mtxWriter>>

\* emitEvent in the monitor: the shutdown test before the lock.
MonitorEmitCheck ==
    /\ monitorPc = "emitCheck"
    /\ monitorPc' = IF shutdown = shutdownStateActive
                    THEN "loop" ELSE "emitRLock"
    /\ UNCHANGED <<sdkVars, shutdown, initMu, chanVars, initVars, burVars,
                   lastKnownSplits, monitorStarted, shutVars, destroyVars,
                   statusVars, readVars, configVars, compareVars, mtxWriter>>

\* emitEvent in the monitor: p.mtx.RLock()
MonitorEmitRLock ==
    /\ monitorPc = "emitRLock"
    /\ mtxWriter = <<>>
    /\ mtxReaders' = mtxReaders + 1
    /\ monitorPc' = "emitRecheck"
    /\ UNCHANGED <<sdkVars, shutdown, initMu, chanVars, initVars, burVars,
                   lastKnownSplits, monitorStarted, shutVars, destroyVars,
                   statusVars, evalVars, trackPc, panics, published,
                   metricsVars, configVars, compareVars, mtxWriter>>

\* emitEvent without its second shutdown test.
MonitorEmitRecheck_NoRecheck ==
    /\ monitorPc = "emitRecheck"
    /\ monitorPc' = "emitSend"
    /\ UNCHANGED <<sdkVars, shutdown, initMu, chanVars, initVars, burVars,
                   lastKnownSplits, monitorStarted, shutVars, destroyVars,
                   statusVars, readVars, configVars, compareVars, mtxWriter>>

\* emitEvent in the monitor: the shutdown test under the read lock.
MonitorEmitRecheck ==
    /\ monitorPc = "emitRecheck"
    /\ IF shutdown = shutdownStateActive
       THEN monitorPc' = "loop" /\ mtxReaders' = mtxReaders - 1
       ELSE monitorPc' = "emitSend" /\ UNCHANGED mtxReaders
    /\ UNCHANGED <<sdkVars, shutdown, initMu, chanVars, initVars, burVars,
                   lastKnownSplits, monitorStarted, shutVars, destroyVars,
                   statusVars, evalVars, trackPc, panics, published,
                   metricsVars, configVars, compareVars, mtxWriter>>

\* emitEvent in the monitor: the non-blocking send and the deferred RUnlock.
\* A send on a closed channel panics.
MonitorEmitSend ==
    /\ monitorPc = "emitSend"
    /\ IF eventClosed > 0
       THEN panics' = panics \cup {"emit"} /\ UNCHANGED eventStream
       ELSE ChannelSend("PROVIDER_CONFIGURATION_CHANGED") /\ UNCHANGED panics
    /\ mtxReaders' = mtxReaders - 1
    /\ monitorPc' = "loop"
    /\ UNCHANGED <<sdkVars, shutdown, initMu, eventClosed, stopClosed,
                   monitorDone, initVars, burVars, lastKnownSplits,
                   monitorStarted, shutVars, destroyVars, statusVars, evalVars,
                   trackPc, published, metricsVars, configVars, compareVars,
                   mtxWriter>>

\* select, case <-p.stopMonitor: return; the deferred close(p.monitorDone).
MonitorStop ==
    /\ monitorPc = "loop"
    /\ stopClosed > 0
    /\ monitorPc' = "exited"
    /\ monitorDone' = monitorDone + 1
    /\ UNCHANGED <<sdkVars, shutdown, initMu, eventStream, eventClosed,
                   stopClosed, initVars, burVars, lastKnownSplits,
                   monitorStarted, shutVars, destroyVars, statusVars, readVars,
                   configVars, compareVars, mtxWriter>>

\* The prologue finds p.factory or its Manager() nil: RUnlock, return, and
\* the deferred close(p.monitorDone).
MonitorEarlyReturn ==
    /\ monitorPc = "start"
    /\ \E missing \in {"factory", "manager"} :
          /\ monitorPc' = "exited"
          /\ monitorDone' = monitorDone + 1
    /\ UNCHANGED <<sdkVars, shutdown, initMu, eventStream, eventClosed,
                   stopClosed, initVars, burVars, lastKnownSplits,
                   monitorStarted, shutVars, destroyVars, statusVars, readVars,
                   configVars, compareVars, mtxWriter>>

\* A panic in the goroutine that nothing recovers.
MonitorPanic_Unrecovered ==
    /\ monitorPc \in {"start", "loop"}
    /\ monitorPc' = "exited"
    /\ panics' = panics \cup {"monitor"}
    /\ UNCHANGED <<sdkVars, shutdown, initMu, chanVars, initVars, burVars,
                   lastKnownSplits, monitorStarted, shutVars, destroyVars,
                   statusVars, mtxReaders, evalVars, trackPc, published,
                   metricsVars, configVars, compareVars, mtxWriter>>

\* A step of the goroutine panics, in the prologue or in a tick.  The deferred
\* function recovers and closes monitorDone.  The read lock of the prologue
\* and of the tick is released by a plain call, not a deferred one, so a
\* panic between RLock and RUnlock leaves the goroutine's read lock held.
MonitorPanic ==
    /\ monitorPc \in {"start", "loop"}
    /\ monitorPc' = "exited"
    /\ monitorDone' = monitorDone + 1
    /\ \E underLock \in BOOLEAN :
          mtxReaders' = IF underLock THEN mtxReaders + 1 ELSE mtxReaders
    /\ UNCHANGED <<sdkVars, shutdown, initMu, eventStream, eventClosed,
                   stopClosed, initVars, burVars, lastKnownSplits,
                   monitorStarted, shutVars, destroyVars, statusVars, evalVars,
                   trackPc, panics, published, metricsVars, configVars,
                   compareVars, mtxWriter>>

\* ---- ShutdownWithContext ----

\* return from ShutdownWithContext: the call's context and its locals
\* (shutdownErr, wasInitialized) are of no further interest.
ShutReturn(j, r) ==
    /\ shutPc' = [shutPc EXCEPT ![j] = "returned"]
    /\ shutCtx' = [shutCtx EXCEPT ![j] = FALSE]
    /\ shutdownErr' = [shutdownErr EXCEPT ![j] = "nil"]
    /\ wasInitialized' = [wasInitialized EXCEPT ![j] = FALSE]
    /\ shutRes' = [shutRes EXCEPT ![j] = r]

\* Entry with a plain store instead of the compare-and-swap: every call
\* goes on to tear down.
ShutCall_NoCas(j) ==
    /\ shutPc[j] = "idle"
    /\ IF j = 1 THEN TRUE ELSE shutPc[j - 1] # "idle"
    /\ shutdown' = shutdownStateActive
    /\ casWon' = [casWon EXCEPT ![j] = (shutdown = shutdownStateInactive)]
    /\ shutPc' = [shutPc EXCEPT ![j] = "stopMonitor"]
    /\ \E expired \in BOOLEAN :
          /\ shutCtx' = [shutCtx EXCEPT ![j] = expired]
          /\ expiredOnReady' = [expiredOnReady EXCEPT ![j] =
                                   expired /\ FactoryIsReady]
    /\ UNCHANGED <<shutRes, shutdownErr, wasInitialized>>
    /\ UNCHANGED <<sdkVars, initMu, chanVars, initVars, burVars, monVars,
                   destroyVars, statusVars, readVars, configVars, compareVars,
                   mtxWriter>>

\* Entry: the compare-and-swap on p.shutdown.  The loser returns nil at once.
ShutCall(j) ==
    /\ shutPc[j] = "idle"
    /\ IF j = 1 THEN TRUE ELSE shutPc[j - 1] # "idle"
    /\ IF shutdown = shutdownStateInactive
       THEN /\ shutdown' = shutdownStateActive
            /\ casWon' = [casWon EXCEPT ![j] = TRUE]
            /\ shutPc' = [shutPc EXCEPT ![j] = "stopMonitor"]
            /\ \E expired \in BOOLEAN :
                  /\ shutCtx' = [shutCtx EXCEPT ![j] = expired]
                  /\ expiredOnReady' = [expiredOnReady EXCEPT ![j] =
                                           expired /\ FactoryIsReady]
            /\ UNCHANGED <<shutRes, shutdownErr, wasInitialized>>
       ELSE /\ ShutReturn(j, "nil")
            /\ UNCHANGED <<shutdown, casWon, expiredOnReady>>
    /\ UNCHANGED <<sdkVars, initMu, chanVars, initVars, burVars, monVars,
                   destroyVars, statusVars, readVars, configVars, compareVars,
                   mtxWriter>>

\* The context of a Shutdown call in progress is cancelled or times out.
ShutCtxDone(j) ==
    /\ shutPc[j] \notin {"idle", "returned"}
    /\ ~shutCtx[j]
    /\ shutCtx' = [shutCtx EXCEPT ![j] = TRUE]
    /\ UNCHANGED <<sdkVars, shutdown, initMu, chanVars, initVars, burVars,
                   monVars, shutPc, shutRes, shutdownErr, wasInitialized,
                   casWon, expiredOnReady, destroyVars, statusVars, readVars,
                   configVars, compareVars, mtxWriter>>

\* close(p.stopMonitor) by a Shutdown that takes the provider for never
\* initialized.
ShutStopMonitor_NeverInitialized(j) ==
    /\ shutPc[j] = "stopMonitor"
    /\ MtxLocked(<<"shut", j>>)
    /\ mtxWriter' = <<>>
    /\ stopClosed' = stopClosed + 1
    /\ wasInitialized' = [wasInitialized EXCEPT ![j] = FALSE]
    /\ shutPc' = [shutPc EXCEPT ![j] = "lockInitMu"]
    /\ UNCHANGED <<sdkVars, shutdown, initMu, eventStream, eventClosed,
                   monitorDone, initVars, burVars, monVars, shutCtx, shutRes,
                   shutdownErr, casWon, expiredOnReady, destroyVars,
                   statusVars, readVars, configVars, compareVars>>

\* A Shutdown that goes on to p.initMu.Lock() without p.mtx.Unlock().
ShutStopMonitor_KeepsMtx(j) ==
    /\ shutPc[j] = "stopMonitor"
    /\ MtxLocked(<<"shut", j>>)
    /\ mtxWriter' = <<"shut", j>>
    /\ stopClosed' = stopClosed + 1
    /\ wasInitialized' = [wasInitialized EXCEPT ![j] = FALSE]
    /\ shutPc' = [shutPc EXCEPT ![j] = "lockInitMu"]
    /\ UNCHANGED <<sdkVars, shutdown, initMu, eventStream, eventClosed,
                   monitorDone, initVars, burVars, monVars, shutCtx, shutRes,
                   shutdownErr, casWon, expiredOnReady, destroyVars,
                   statusVars, readVars, configVars, compareVars>>

\* Under p.mtx.Lock(): close(p.stopMonitor) and
\* wasInitialized := p.factory != nil && p.factory.IsReady().
ShutStopMonitor(j) ==
    /\ shutPc[j] = "stopMonitor"
    /\ MtxLocked(<<"shut", j>>)
    /\ mtxWriter' = <<>>
    /\ stopClosed' = stopClosed + 1
    /\ wasInitialized' = [wasInitialized EXCEPT ![j] = FactoryIsReady]
    /\ shutPc' = [shutPc EXCEPT ![j] =
                    IF FactoryIsReady THEN "waitMonitor" ELSE "lockInitMu"]
    /\ UNCHANGED <<sdkVars, shutdown, initMu, eventStream, eventClosed,
                   monitorDone, initVars, burVars, monVars, shutCtx, shutRes,
                   shutdownErr, casWon, expiredOnReady, destroyVars,
                   statusVars, readVars, configVars, compareVars>>

\* Leaving the wait for the monitor although monitorDone is still open.
ShutMonitorStopped_NoWait(j) ==
    /\ shutPc[j] = "waitMonitor"
    /\ shutPc' = [shutPc EXCEPT ![j] = "lockInitMu"]
    /\ UNCHANGED <<sdkVars, shutdown, initMu, chanVars, initVars, burVars,
                   monVars, shutCtx, shutRes, shutdownErr, wasInitialized,
                   casWon, expiredOnReady, destroyVars, statusVars, readVars,
                   configVars, compareVars, mtxWriter>>

\* select, case <-p.monitorDone
ShutMonitorStopped(j) ==
    /\ shutPc[j] = "waitMonitor"
    /\ monitorDone > 0
    /\ shutPc' = [shutPc EXCEPT ![j] = "lockInitMu"]
    /\ UNCHANGED <<sdkVars, shutdown, initMu, chanVars, initVars, burVars,
                   monVars, shutCtx, shutRes, shutdownErr, wasInitialized,
                   casWon, expiredOnReady, destroyVars, statusVars, readVars,
                   configVars, compareVars, mtxWriter>>

\* select, case <-ctx.Done(): shutdownErr = ctx.Err()
ShutMonitorCtx(j) ==
    /\ shutPc[j] = "waitMonitor"
    /\ shutCtx[j]
    /\ shutdownErr' = [shutdownErr EXCEPT ![j] = "ctxErr"]
    /\ shutPc' = [shutPc EXCEPT ![j] = "lockInitMu"]
    /\ UNCHANGED <<sdkVars, shutdown, initMu, chanVars, initVars, burVars,
                   monVars, shutCtx, shutRes, wasInitialized, casWon,
                   expiredOnReady, destroyVars, statusVars, readVars,
                   configVars, compareVars, mtxWriter>>

\* Going on to p.initWg.Wait() without holding p.initMu.
ShutLockInitMu_NoLock(j) ==
    /\ shutPc[j] = "lockInitMu"
    /\ shutPc' = [shutPc EXCEPT ![j] = "wgWait"]
    /\ UNCHANGED <<sdkVars, shutdown, initMu, chanVars, initVars, burVars,
                   monVars, shutCtx, shutRes, shutdownErr, wasInitialized,
                   casWon, expiredOnReady, destroyVars, statusVars, readVars,
                   configVars, compareVars, mtxWriter>>

\* p.initMu.Lock()
ShutLockInitMu(j) ==
    /\ shutPc[j] = "lockInitMu"
    /\ initMu = <<>>
    /\ initMu' = <<"shut", j>>
    /\ shutPc' = [shutPc EXCEPT ![j] = "wgWait"]
    /\ UNCHANGED <<sdkVars, shutdown, chanVars, initVars, burVars, monVars,
                   shutCtx, shutRes, shutdownErr, wasInitialized, casWon,
                   expiredOnReady, destroyVars, statusVars, readVars,
                   configVars, compareVars, mtxWriter>>

\* The step without p.initWg.Wait().
ShutWgWait_NoWait(j) ==
    /\ shutPc[j] = "wgWait"
    /\ initMu' = <<>>
    /\ destroyPc' = "lock"
    /\ shutPc' = [shutPc EXCEPT ![j] = "waitDestroy"]
    /\ UNCHANGED <<sdkVars, shutdown, chanVars, initVars, burVars, monVars,
                   shutCtx, shutRes, shutdownErr, wasInitialized, casWon,
                   expiredOnReady, destroyCalls, client, statusVars, readVars,
                   configVars, compareVars, mtxWriter>>

\* p.initWg.Wait() returns; p.initMu.Unlock(); the destroy goroutine is spawned.
ShutWgWait(j) ==
    /\ shutPc[j] = "wgWait"
    /\ initWg = 0
    /\ initMu' = <<>>
    /\ destroyPc' = "lock"
    /\ shutPc' = [shutPc EXCEPT ![j] = "waitDestroy"]
    /\ UNCHANGED <<sdkVars, shutdown, chanVars, initVars, burVars, monVars,
                   shutCtx, shutRes, shutdownErr, wasInitialized, casWon,
                   expiredOnReady, destroyCalls, client, statusVars, readVars,
                   configVars, compareVars, mtxWriter>>

\* The last wait answering before destroyDone is closed.
ShutDestroyDone_NoWait(j) ==
    /\ shutPc[j] = "waitDestroy"
    /\ ShutReturn(j, shutdownErr[j])
    /\ UNCHANGED <<sdkVars, shutdown, initMu, chanVars, initVars, burVars,
                   monVars, casWon, expiredOnReady, destroyVars, statusVars,
                   readVars, configVars, compareVars, mtxWriter>>

\* select, case <-destroyDone
ShutDestroyDone(j) ==
    /\ shutPc[j] = "waitDestroy"
    /\ destroyPc = "done"
    /\ ShutReturn(j, shutdownErr[j])
    /\ UNCHANGED <<sdkVars, shutdown, initMu, chanVars, initVars, burVars,
                   monVars, casWon, expiredOnReady, destroyVars, statusVars,
                   readVars, configVars, compareVars, mtxWriter>>

\* select, case <-ctx.Done(): shutdownErr = ctx.Err() unless already set
ShutDestroyCtx(j) ==
    /\ shutPc[j] = "waitDestroy"
    /\ shutCtx[j]
    /\ ShutReturn(j, "ctxErr")
    /\ UNCHANGED <<sdkVars, shutdown, initMu, chanVars, initVars, burVars,
                   monVars, casWon, expiredOnReady, destroyVars, statusVars,
                   readVars, configVars, compareVars, mtxWriter>>

\* ---- the destroy goroutine ----

\* The locked section that closes the channel and keeps p.client.
DestroyLocked_KeepsClient ==
    /\ destroyPc = "lock"
    /\ MtxLocked(<<"destroy", 0>>)
    /\ mtxWriter' = <<>>
    /\ eventClosed' = eventClosed + 1
    /\ destroyPc' = "destroy"
    /\ UNCHANGED <<sdkVars, shutdown, initMu, eventStream, stopClosed,
                   monitorDone, initVars, burVars, monVars, shutVars, client,
                   destroyCalls, statusVars, readVars, configVars,
                   compareVars>>

\* Under p.mtx.Lock(): p.client = nil and close(p.eventStream).
DestroyLocked ==
    /\ destroyPc = "lock"
    /\ MtxLocked(<<"destroy", 0>>)
    /\ mtxWriter' = <<>>
    /\ client' = "nil"
    /\ eventClosed' = eventClosed + 1
    /\ destroyPc' = "destroy"
    /\ UNCHANGED <<sdkVars, shutdown, initMu, eventStream, stopClosed,
                   monitorDone, initVars, burVars, monVars, shutVars,
                   destroyCalls, statusVars, readVars, configVars,
                   compareVars>>

\* clientToDestroy.Destroy() runs to completion; close(destroyDone).
DestroyClient ==
    /\ destroyPc = "destroy"
    /\ sdkDestroyed' = TRUE
    /\ destroyCalls' = destroyCalls + 1
    /\ destroyPc' = "done"
    /\ UNCHANGED <<sdkReady, sdkVer, shutdown, initMu, chanVars, initVars,
                   burVars, monVars, shutVars, client, statusVars, readVars,
                   configVars, compareVars, mtxWriter>>

\* ---- Status ----

\* A caller enters Status() and, under p.mtx.RLock(), reads the shutdown flag
\* and p.factory.
StatusCall ==
    /\ statusPc = "idle"
    /\ mtxWriter = <<>>
    /\ statusShutdown' = (shutdown = shutdownStateActive)
    /\ statusRes' = "none"
    /\ statusPc' = "read"
    /\ UNCHANGED <<sdkVars, shutdown, initMu, chanVars, initVars, burVars,
                   monVars, shutVars, destroyVars, readVars, configVars,
                   compareVars, mtxWriter>>

\* Status() without its shutdown test.
StatusOf_IgnoresShutdown(isShutdown) ==
    IF FactoryIsReady THEN "Ready" ELSE "NotReady"

\* The state Status() computes from what it read and from factory.IsReady().
StatusOf(isShutdown) ==
    IF isShutdown THEN "NotReady"
    ELSE IF FactoryIsReady THEN "Ready" ELSE "NotReady"

\* After RUnlock: shutdown gives NotReady, else factory.IsReady() decides.
StatusReturn ==
    /\ statusPc = "read"
    /\ statusRes' = StatusOf(statusShutdown)
    /\ statusPc' = "idle"
    /\ UNCHANGED <<sdkVars, shutdown, initMu, chanVars, initVars, burVars,
                   monVars, shutVars, destroyVars, statusShutdown, readVars,
                   configVars, compareVars, mtxWriter>>

\* ---- Metrics ----

\* A caller enters Metrics() and loads the shutdown flag.
MetricsCall ==
    /\ metricsPc = "idle"
    /\ metricsShutdown' = (shutdown = shutdownStateActive)
    /\ metricsRes' = NoMetrics
    /\ metricsPc' = "loaded"
    /\ UNCHANGED <<sdkVars, shutdown, initMu, chanVars, initVars, burVars,
                   monVars, shutVars, destroyVars, statusVars, mtxReaders,
                   evalVars, trackPc, panics, published, configVars,
                   compareVars, mtxWriter>>

\* Metrics() without its shutdown test.
MetricsOf_IgnoresShutdown(isShutdown) ==
    LET isReady == FactoryIsReady
    IN  [initialized  |-> isReady,
         status       |-> IF isReady THEN "Ready" ELSE "NotReady",
         ready        |-> isReady,
         splits_count |-> isReady]

\* The map Metrics() builds from the flag it loaded and factory.IsReady();
\* splits_count records whether the key is present (the manager of a factory
\* is never nil).
MetricsOf(isShutdown) ==
    LET isReady == ~isShutdown /\ FactoryIsReady
    IN  [initialized  |-> isReady,
         status       |-> IF isReady THEN "Ready" ELSE "NotReady",
         ready        |-> isReady,
         splits_count |-> isReady]

\* p.factory is read under RLock, then the map is computed and returned.
MetricsReturn ==
    /\ metricsPc = "loaded"
    /\ mtxWriter = <<>>
    /\ metricsRes' = MetricsOf(metricsShutdown)
    /\ metricsPc' = "idle"
    /\ UNCHANGED <<sdkVars, shutdown, initMu, chanVars, initVars, burVars,
                   monVars, shutVars, destroyVars, statusVars, mtxReaders,
                   evalVars, trackPc, panics, published, metricsShutdown,
                   configVars, compareVars, mtxWriter>>

\* ---- flag evaluation and Track ----

\* What the lifecycle owns: unchanged by every step of an evaluation or of a
\* Track call.
lifecycleVars ==
    <<sdkVars, shutdown, initMu, chanVars, initVars, burVars, monVars,
      shutVars, destroyVars, statusVars>>

\* A method call on p.client: a nil pointer dereference when the client has
\* been set to nil.
ClientCall(who) ==
    panics' = IF client = "nil" THEN panics \cup {who} ELSE panics

\* validateEvaluationContext: the first failed test decides, in this order.
\* A targeting key is a string, absent, or present with another type.
validateEvaluationContext_CtxFirst(status, ctxDone, key) ==
    IF ctxDone THEN "GENERAL"
    ELSE IF status # "Ready" THEN "PROVIDER_NOT_READY"
    ELSE IF key = "absent" THEN "TARGETING_KEY_MISSING"
    ELSE IF key # "string" THEN "INVALID_CONTEXT"
    ELSE "ok"

validateEvaluationContext(status, ctxDone, key) ==
    IF status # "Ready" THEN "PROVIDER_NOT_READY"
    ELSE IF ctxDone THEN "GENERAL"
    ELSE IF key = "absent" THEN "TARGETING_KEY_MISSING"
    ELSE IF key # "string" THEN "INVALID_CONTEXT"
    ELSE "ok"

KeyKinds ==
    {"string", "absent", "notString"}

\* An evaluation method is entered with some context and evaluation context.
EvalCall ==
    /\ evalPc = "idle"
    /\ evalPc' = "validate"
    /\ evalRes' = "none"
    /\ \E ctxDone \in BOOLEAN : evalCtx' = ctxDone
    /\ \E key \in KeyKinds : evalKey' = key
    /\ UNCHANGED <<lifecycleVars, mtxReaders, trackPc, panics, published,
                   metricsVars, configVars, compareVars, mtxWriter>>

\* The method calls validateEvaluationContext and, when that fails, returns
\* the caller's default with the error; the inputs are of no further interest.
EvalValidate ==
    /\ evalPc = "validate"
    /\ LET r == validateEvaluationContext(
                    StatusOf(shutdown = shutdownStateActive), evalCtx, evalKey)
       IN  IF r = "ok"
           THEN evalPc' = "check" /\ UNCHANGED evalRes
           ELSE evalPc' = "idle" /\ evalRes' = r
    /\ evalCtx' = FALSE
    /\ evalKey' = "string"
    /\ UNCHANGED <<lifecycleVars, mtxReaders, trackPc, panics, published,
                   metricsVars, configVars, compareVars, mtxWriter>>

\* evaluateTreatmentWithConfig: the shutdown test before the lock.  It answers
\* the control treatment, which the method reports as flag not found.
EvalFastCheck ==
    /\ evalPc = "check"
    /\ IF shutdown = shutdownStateActive
       THEN evalPc' = "idle" /\ evalRes' = "FLAG_NOT_FOUND"
       ELSE evalPc' = "rlock" /\ UNCHANGED evalRes
    /\ UNCHANGED <<lifecycleVars, mtxReaders, evalCtx, evalKey, trackPc,
                   panics, published, metricsVars, configVars, compareVars,
                   mtxWriter>>

\* p.mtx.RLock()
EvalRLock ==
    /\ evalPc = "rlock"
    /\ mtxWriter = <<>>
    /\ mtxReaders' = mtxReaders + 1
    /\ evalPc' = "recheck"
    /\ UNCHANGED <<lifecycleVars, evalRes, evalCtx, evalKey, trackPc, panics,
                   published, metricsVars, configVars, compareVars, mtxWriter>>

\* The evaluation without its second shutdown test.
EvalRecheck_NoRecheck ==
    /\ evalPc = "recheck"
    /\ evalPc' = "inCall"
    /\ UNCHANGED <<lifecycleVars, mtxReaders, evalRes, evalCtx, evalKey,
                   trackPc, panics, published, metricsVars, configVars,
                   compareVars, mtxWriter>>

\* The shutdown test under the read lock; the deferred RUnlock on return.
EvalRecheck ==
    /\ evalPc = "recheck"
    /\ IF shutdown = shutdownStateActive
       THEN /\ evalPc' = "idle"
            /\ evalRes' = "FLAG_NOT_FOUND"
            /\ mtxReaders' = mtxReaders - 1
       ELSE /\ evalPc' = "inCall"
            /\ UNCHANGED <<evalRes, mtxReaders>>
    /\ UNCHANGED <<lifecycleVars, evalCtx, evalKey, trackPc, panics, published,
                   metricsVars, configVars, compareVars, mtxWriter>>

\* p.client.TreatmentWithConfig(...) returns the treatment of an existing
\* flag; the deferred RUnlock.
EvalClientCall ==
    /\ evalPc = "inCall"
    /\ ClientCall("eval")
    /\ evalRes' = IF client = "nil" THEN "panic" ELSE "TARGETING_MATCH"
    /\ mtxReaders' = mtxReaders - 1
    /\ evalPc' = "idle"
    /\ UNCHANGED <<lifecycleVars, evalCtx, evalKey, trackPc, published,
                   metricsVars, configVars, compareVars, mtxWriter>>

\* Track is entered with a live context and a targeting key; it goes on when
\* Status() is Ready.
TrackCall ==
    /\ trackPc = "idle"
    /\ trackPc' = IF StatusOf(shutdown = shutdownStateActive) = "Ready"
                  THEN "call" ELSE "idle"
    /\ UNCHANGED <<lifecycleVars, mtxReaders, evalVars, panics, published,
                   metricsVars, configVars, compareVars, mtxWriter>>

\* p.client.Track(...): p.client is read without p.mtx.
TrackClientCall ==
    /\ trackPc = "call"
    /\ ClientCall("track")
    /\ trackPc' = "idle"
    /\ UNCHANGED <<lifecycleVars, mtxReaders, evalVars, published, metricsVars,
                   configVars, compareVars, mtxWriter>>

\* ---- overflow scenario ----

\* The overflow scenario: one more emitEvent call on the channel New() made,
\* with nobody receiving.  The events are numbered in the order of the calls.
OverflowPublish ==
    /\ published < eventsToEmit
    /\ published' = published + 1
    /\ IF shutdown = shutdownStateActive
       THEN eventStream' = eventStream
       ELSE ChannelSendCap(published + 1, eventChannelBuffer)
    /\ UNCHANGED <<sdkVars, shutdown, initMu, eventClosed, stopClosed,
                   monitorDone, initVars, burVars, monVars, shutVars,
                   destroyVars, statusVars, mtxReaders, evalVars, trackPc,
                   panics, metricsVars, configVars, compareVars, mtxWriter>>

\* ---- specification ----

Next ==
    \/ SdkBecomesReady
    \/ SdkUpdate
    \/ EventReceive
    \/ \E i \in InitIds : InitCall(i)
    \/ \E i \in InitIds : InitCtxDone(i)
    \/ \E i \in InitIds : InitAcquire(i)
    \/ \E i \in InitIds : InitDo(i)
    \/ \E i \in InitIds : InitSelectReady(i)
    \/ \E i \in InitIds : InitSelectCtx(i)
    \/ \E i \in InitIds : InitLocked(i)
    \/ \E i \in InitIds : InitEmitReady(i)
    \/ \E i \in InitIds : BurReturn(i)
    \/ \E i \in InitIds : BurSend(i)
    \/ \E i \in InitIds : BurDone(i)
    \/ MonitorStart
    \/ MonitorTick
    \/ MonitorEmitCheck
    \/ MonitorEmitRLock
    \/ MonitorEmitRecheck
    \/ MonitorEmitSend
    \/ MonitorStop
    \/ \E j \in ShutIds : ShutCall(j)
    \/ \E j \in ShutIds : ShutCtxDone(j)
    \/ \E j \in ShutIds : ShutStopMonitor(j)
    \/ \E j \in ShutIds : ShutMonitorStopped(j)
    \/ \E j \in ShutIds : ShutMonitorCtx(j)
    \/ \E j \in ShutIds : ShutLockInitMu(j)
    \/ \E j \in ShutIds : ShutWgWait(j)
    \/ \E j \in ShutIds : ShutDestroyDone(j)
    \/ \E j \in ShutIds : ShutDestroyCtx(j)
    \/ DestroyLocked
    \/ DestroyClient
    \/ StatusCall
    \/ StatusReturn
    \/ EvalCall
    \/ EvalValidate
    \/ EvalFastCheck
    \/ EvalRLock
    \/ EvalRecheck
    \/ EvalClientCall
    \/ TrackCall
    \/ TrackClientCall
    \/ OverflowPublish
    \/ MetricsCall
    \/ MetricsReturn
    \/ MonitorEarlyReturn
    \/ MonitorPanic

\* Every operation at once.  The properties below are established on the
\* components that follow, each of which adds to the lifecycle only the
\* callers its properties speak about.
Spec ==
    Init /\ [][Next]_vars

\* The lifecycle alone: no Status caller, no subscriber and no change of the
\* split definitions (so no poll of the monitor finds a difference).
NextLifecycle ==
    \/ SdkBecomesReady
    \/ \E i \in InitIds : InitCall(i)
    \/ \E i \in InitIds : InitCtxDone(i)
    \/ \E i \in InitIds : InitAcquire(i)
    \/ \E i \in InitIds : InitDo(i)
    \/ \E i \in InitIds : InitSelectReady(i)
    \/ \E i \in InitIds : InitSelectCtx(i)
    \/ \E i \in InitIds : InitLocked(i)
    \/ \E i \in InitIds : InitEmitReady(i)
    \/ \E i \in InitIds : BurReturn(i)
    \/ \E i \in InitIds : BurSend(i)
    \/ \E i \in InitIds : BurDone(i)
    \/ MonitorStart
    \/ MonitorStop
    \/ \E j \in ShutIds : ShutCall(j)
    \/ \E j \in ShutIds : ShutCtxDone(j)
    \/ \E j \in ShutIds : ShutStopMonitor(j)
    \/ \E j \in ShutIds : ShutMonitorStopped(j)
    \/ \E j \in ShutIds : ShutMonitorCtx(j)
    \/ \E j \in ShutIds : ShutLockInitMu(j)
    \/ \E j \in ShutIds : ShutWgWait(j)
    \/ \E j \in ShutIds : ShutDestroyDone(j)
    \/ \E j \in ShutIds : ShutDestroyCtx(j)
    \/ DestroyLocked
    \/ DestroyClient

SpecLifecycle ==
    Init /\ [][NextLifecycle]_vars

NextEvents ==
    \/ NextLifecycle
    \/ SdkUpdate
    \/ MonitorTick
    \/ MonitorEmitCheck
    \/ MonitorEmitRLock
    \/ MonitorEmitRecheck
    \/ MonitorEmitSend
    \/ EventReceive

\* The lifecycle together with the polling monitor and a subscriber.
SpecEvents ==
    Init /\ [][NextEvents]_vars

NextOverflow ==
    OverflowPublish

\* A provider that only publishes, against the real capacity of its channel.
SpecOverflow ==
    Init /\ [][NextOverflow]_vars

NextEval ==
    \/ NextLifecycle
    \/ EvalCall
    \/ EvalValidate
    \/ EvalFastCheck
    \/ EvalRLock
    \/ EvalRecheck
    \/ EvalClientCall

\* The lifecycle together with a flag evaluation.
SpecEval ==
    Init /\ [][NextEval]_vars

NextLocks ==
    \/ NextEval
    \/ \E i \in InitIds : InitMtxLock(i)
    \/ \E j \in ShutIds : ShutMtxLock(j)
    \/ DestroyMtxLock

\* The lifecycle and a flag evaluation, with p.mtx.Lock() as a step of its
\* own, so that a goroutine can be seen holding the lock.
SpecLocks ==
    Init /\ [][NextLocks]_vars

NextReaders ==
    \/ NextLifecycle
    \/ EvalCall
    \/ EvalValidate
    \/ EvalFastCheck
    \/ EvalRLock
    \/ EvalRecheck
    \/ EvalClientCall
    \/ TrackCall
    \/ TrackClientCall

\* The lifecycle together with a flag evaluation and a Track call.
SpecReaders ==
    Init /\ [][NextReaders]_vars

NextMetrics ==
    \/ NextLifecycle
    \/ MetricsCall
    \/ MetricsReturn

\* The lifecycle together with a Metrics call.
SpecMetrics ==
    Init /\ [][NextMetrics]_vars

\* New() choosing the interval, for every requested interval.
SpecNew ==
    InitConfig /\ [][NewInterval]_vars

\* Two maps as the arguments of a call of splitsChanged.
InitCompare ==
    /\ Constructed
    /\ DefaultConfig
    /\ comparePc = "call"
    /\ oldSplits \in SplitMaps
    /\ currentSplits \in SplitMaps
    /\ changed = FALSE

\* splitsChanged on every pair of maps.
SpecCompare ==
    InitCompare /\ [][CompareSplits]_vars

NextStatus ==
    \/ NextLifecycle
    \/ StatusCall
    \/ StatusReturn

SpecStatus ==
    Init /\ [][NextStatus]_vars

\* Scheduling: every goroutine that can take a step eventually takes one.
\* Nothing obliges a caller to call, a context to be cancelled or the SDK to
\* become ready; BlockUntilReady and Destroy return (BurStep, DestroyStep).
InitStep(i) ==
    \/ InitAcquire(i)
    \/ InitDo(i)
    \/ InitSelectReady(i)
    \/ InitSelectCtx(i)
    \/ InitLocked(i)
    \/ InitEmitReady(i)

BurStep(i) ==
    \/ BurReturn(i)
    \/ BurSend(i)
    \/ BurDone(i)

MonitorStep ==
    \/ MonitorStart
    \/ MonitorStop

ShutStep(j) ==
    \/ ShutStopMonitor(j)
    \/ ShutMonitorStopped(j)
    \/ ShutMonitorCtx(j)
    \/ ShutLockInitMu(j)
    \/ ShutWgWait(j)
    \/ ShutDestroyDone(j)
    \/ ShutDestroyCtx(j)

DestroyStep ==
    \/ DestroyLocked
    \/ DestroyClient

Scheduling ==
    /\ \A i \in InitIds : WF_vars(InitStep(i)) /\ WF_vars(BurStep(i))
    /\ \A j \in ShutIds : WF_vars(ShutStep(j))
    /\ WF_vars(MonitorStep)
    /\ WF_vars(DestroyStep)

FairLifecycle ==
    Init /\ [][NextLifecycle]_vars /\ Scheduling

MonitorEmitStep ==
    \/ MonitorEmitCheck
    \/ MonitorEmitRLock
    \/ MonitorEmitRecheck
    \/ MonitorEmitSend

\* The polling monitor under fair scheduling.  A select whose stop case is
\* ready every time round the loop takes it sooner or later: Go chooses
\* among the ready cases at random.
NextPolling ==
    \/ NextLifecycle
    \/ SdkUpdate
    \/ MonitorTick
    \/ MonitorEmitStep

NextMonitor ==
    \/ NextPolling
    \/ MonitorEarlyReturn
    \/ MonitorPanic

\* The polling monitor with its early returns and with panics in its steps.
SpecMonitor ==
    Init /\ [][NextMonitor]_vars

FairPolling ==
    /\ Init /\ [][NextPolling]_vars
    /\ Scheduling
    /\ WF_vars(MonitorEmitStep)
    /\ SF_vars(MonitorStop)

\* ---- properties ----

\* C1: once a ShutdownWithContext call has run its compare-and-swap, every
\* InitWithContext call that starts afterwards returns the "cannot initialize
\* provider after shutdown" error, and every Status() call that starts
\* afterwards returns NotReady.
C1_TerminalMonotonicity ==
    /\ \A i \in InitIds :
         (initPc[i] = "returned" /\ initAfterShut[i])
            => initRes[i] = "alreadyShutdown"
    /\ (statusPc = "idle" /\ statusRes # "none" /\ statusShutdown)
            => statusRes = "NotReady"

\* An Init call and a Status call both started after the shutdown flag was set,
\* while the SDK still reports ready, and both have returned.
C1_Witness ==
    /\ \E i \in InitIds : initPc[i] = "returned" /\ initAfterShut[i]
    /\ statusPc = "idle" /\ statusShutdown /\ statusRes = "NotReady"
    /\ FactoryIsReady

\* The calls of ShutdownWithContext that are past close(p.stopMonitor).
PastStopMonitor(j) ==
    shutPc[j] \in {"waitMonitor", "lockInitMu", "wgWait", "waitDestroy"}

\* C2: ShutdownWithContext waits for monitorDone if and only if the monitor
\* goroutine was started by an Init call; when the monitor was never started
\* Shutdown does not block on monitorDone.
C2_WaitsIffMonitorStarted ==
    \A j \in ShutIds :
        /\ PastStopMonitor(j) => (wasInitialized[j] <=> monitorStarted > 0)
        /\ shutPc[j] = "waitMonitor" => monitorStarted > 0

\* C3: every ShutdownWithContext call eventually returns, also with a context
\* that is never cancelled, provided BlockUntilReady and Destroy return.
C3_ShutdownReturns ==
    \A j \in ShutIds : (shutPc[j] # "idle") ~> (shutPc[j] = "returned")

\* A Shutdown call has nothing to do but wait for another goroutine.
ShutBlocked(j) ==
    \/ shutPc[j] = "lockInitMu" /\ initMu # <<>>
    \/ shutPc[j] = "wgWait" /\ initWg > 0
    \/ shutPc[j] = "waitMonitor" /\ monitorDone = 0 /\ ~shutCtx[j]
    \/ shutPc[j] = "waitDestroy" /\ destroyPc # "done" /\ ~shutCtx[j]

\* C4: each of Shutdown's waits is raced against ctx: once ctx is done,
\* Shutdown does not wait for an in-flight Init call or for a BlockUntilReady
\* goroutine.
C4_WaitsRacedAgainstCtx ==
    \A j \in ShutIds : shutCtx[j] => ~ShutBlocked(j)

\* No Init call was cancelled, no readiness wait failed, no shutdown began.
UndisturbedInit ==
    /\ shutdown = shutdownStateInactive
    /\ \A i \in InitIds : initRes[i] # "canceled" /\ burVal[i] # "err"

\* C4, as the code has it: the monitor-stop wait and the destroy wait are raced against
\* ctx, the join of Init's readiness goroutines is not: whatever ctx, the call
\* that tears down gets past p.initMu.Lock() and p.initWg.Wait() only when no
\* Init call is in flight and every readiness goroutine has finished, and it
\* returns (nil or ctx.Err()) only after that.
C4_JoinNotRaced ==
    /\ [][\A j \in ShutIds :
            /\ (shutPc[j] = "lockInitMu" /\ shutPc'[j] # "lockInitMu")
                 => initMu = <<>> /\ shutPc'[j] = "wgWait"
            /\ (shutPc[j] = "wgWait" /\ shutPc'[j] # "wgWait")
                 => initWg = 0 /\ shutPc'[j] = "waitDestroy"]_vars
    /\ [](\A j \in ShutIds :
            (casWon[j] /\ shutPc[j] \in {"waitDestroy", "returned"})
              => \A i \in InitIds :
                    /\ burPc[i] \in {"none", "done"}
                    /\ initPc[i] \in {"idle", "lockInitMu", "returned"})

\* The context of the call that tears down is done while the call is held at
\* the join by a readiness goroutine that is still running.
C4_Witness ==
    \E j \in ShutIds :
        /\ shutCtx[j]
        /\ shutPc[j] = "wgWait"
        /\ \E i \in InitIds : burPc[i] = "running"

\* C5: when the Init calls run concurrently on a not-yet-ready provider whose
\* readiness wait succeeds and no context expires first, BlockUntilReady is
\* called exactly once in total and every call returns nil.
C5_Singleflight ==
    UndisturbedInit =>
        /\ burSpawned <= 1
        /\ \A i \in InitIds : initPc[i] = "returned" => initRes[i] = "nil"
        /\ (\E i \in InitIds :
               initPc[i] = "returned"
               /\ initVia[i] \in {"readyBranch", "ctxBranch"})
              => burSpawned = 1 /\ monitorStarted = 1

\* Two calls in flight together: call 1 entered first and still found the
\* provider ready at its fast path, so call 2 initialized while call 1 waited.
C5_Witness ==
    /\ UndisturbedInit
    /\ initPc[1] = "returned" /\ initVia[1] = "fastPath" /\ initRes[1] = "nil"
    /\ initPc[2] = "returned" /\ initVia[2] = "readyBranch" /\ initRes[2] = "nil"
    /\ burSpawned = 1

C7_CancelWithoutWaiting ==
    \A i \in InitIds :
        (initCtx[i] /\ \E k \in InitIds : burPc[k] = "running")
            => ~(initPc[i] = "lockInitMu" /\ initMu # <<>>)

\* What an Init call can change in the provider.
ProviderState ==
    <<shutdown, client, eventStream, eventClosed, stopClosed, monitorDone,
      initWg, readyErr, burPc, burSpawned, monitorPc, monitorStarted,
      destroyPc>>

\* C8: an Init call made while the provider is Ready returns nil by the fast
\* path: it spawns no readiness goroutine, starts no monitor, emits no event
\* and leaves the provider as it was.
C8_InitIdempotent ==
    [][\A i \in InitIds :
         (initPc[i] = "lockInitMu" /\ initPc'[i] # "lockInitMu"
             /\ shutdown = shutdownStateInactive /\ StatusOf(FALSE) = "Ready")
           => /\ initPc'[i] = "returned"
              /\ initRes'[i] = "nil"
              /\ initVia'[i] = "fastPath"
              /\ ProviderState' = ProviderState]_vars

\* A second successful Init after the one that initialized: one readiness
\* wait, one monitor.
C8_Witness ==
    \E i, k \in InitIds :
        /\ initPc[i] = "returned" /\ initRes[i] = "nil"
        /\ initVia[i] \in {"readyBranch", "ctxBranch"}
        /\ initPc[k] = "returned" /\ initRes[k] = "nil"
        /\ initVia[k] = "fastPath"
        /\ burSpawned = 1 /\ monitorStarted = 1

\* C9: however many Shutdown calls are made, teardown runs at most once:
\* stopMonitor and the event channel are closed at most once and Destroy is
\* called at most once; a call that loses the compare-and-swap returns nil
\* without any teardown step.
C9_TeardownOnce ==
    /\ stopClosed <= 1
    /\ eventClosed <= 1
    /\ destroyCalls <= 1
    /\ Cardinality({j \in ShutIds : casWon[j]}) <= 1
    /\ \A j \in ShutIds :
         (shutPc[j] # "idle" /\ ~casWon[j])
            => shutPc[j] = "returned" /\ shutRes[j] = "nil"

\* Two Shutdown calls have returned, one of them the loser, after a complete
\* teardown.
C9_Witness ==
    \E j, k \in ShutIds :
        /\ casWon[j] /\ shutPc[j] = "returned"
        /\ ~casWon[k] /\ shutPc[k] = "returned" /\ shutRes[k] = "nil"
        /\ stopClosed = 1 /\ eventClosed = 1 /\ destroyCalls = 1

\* Teardown is complete.
ShutdownComplete ==
    /\ monitorStarted > 0 => monitorPc = "exited"
    /\ \A i \in InitIds : burPc[i] \in {"none", "done"}
    /\ eventClosed = 1
    /\ client = "nil"
    /\ sdkDestroyed

\* C10 as stated: whenever any Shutdown call returns nil, teardown is
\* complete; a non-nil return is ctx.Err().
C10_NilMeansComplete ==
    \A j \in ShutIds :
        shutPc[j] = "returned"
            => /\ shutRes[j] \in {"nil", "ctxErr"}
               /\ shutRes[j] = "nil" => ShutdownComplete

\* C10, as the code has it: whenever the Shutdown call that won the compare-and-swap
\* returns nil, teardown is complete; a call that lost it returns nil at once;
\* a non-nil return is ctx.Err().
C10_WinnerNilMeansComplete ==
    \A j \in ShutIds :
        shutPc[j] = "returned"
            => /\ shutRes[j] \in {"nil", "ctxErr"}
               /\ (casWon[j] /\ shutRes[j] = "nil") => ShutdownComplete
               /\ ~casWon[j] => shutRes[j] = "nil"

\* The winning call returned nil after stopping a started monitor and joining
\* a readiness goroutine.
C10_Witness ==
    \E j \in ShutIds :
        /\ casWon[j] /\ shutPc[j] = "returned" /\ shutRes[j] = "nil"
        /\ monitorStarted = 1 /\ burSpawned >= 1
        /\ ShutdownComplete

\* C11: the first Shutdown call, made on a Ready provider whose monitor is
\* running and with a context already done at entry, returns the context's
\* error, never nil, and Status() is NotReady by then.
C11_ExpiredCtxReturnsError ==
    \A j \in ShutIds :
        (casWon[j] /\ expiredOnReady[j] /\ monitorStarted > 0
                   /\ shutPc[j] = "returned")
          => /\ shutRes[j] = "ctxErr"
             /\ StatusOf(shutdown = shutdownStateActive) = "NotReady"

\* C12: once ShutdownWithContext has been invoked the event channel is
\* eventually closed, and it is closed exactly once, whether or not Init was
\* called and whether or not the context of Shutdown is ever done.
C12_EventChannelClosed ==
    /\ [](eventClosed <= 1)
    /\ (\E j \in ShutIds : shutPc[j] # "idle") ~> (eventClosed = 1)

\* C13: whenever InitWithContext has returned nil, the change-monitor
\* goroutine has been started, also for a retry made after a cancelled Init
\* with the SDK becoming ready in the meantime.
C13_NilInitStartedMonitor ==
    \A i \in InitIds : initRes[i] = "nil" => monitorStarted > 0

\* C14: Status() answers NotReady until an Init call has made the ready
\* transition: whenever Status() has answered Ready, the monitor goroutine had
\* been started.
C14_ReadyAfterMonitorStart ==
    statusRes = "Ready" => monitorStarted > 0

\* The step is the return of Init call i.
InitReturns(i) ==
    initPc[i] # "returned" /\ initPc'[i] = "returned"

\* The channel accepts an event: not shut down and room in the buffer.
EventAccepted ==
    shutdown = shutdownStateInactive /\ Len(eventStream) < EventCap

\* C15: every Init call that performs initialization and returns nil emits
\* exactly one PROVIDER_READY event, and every Init call that returns an error
\* emits a PROVIDER_ERROR event.
C15_EveryInitEmits ==
    [][\A i \in InitIds :
         InitReturns(i) =>
            IF initRes'[i] = "nil"
            THEN initVia'[i] \in {"readyBranch", "ctxBranch"}
                   => eventStream' = Append(eventStream, "PROVIDER_READY")
            ELSE eventStream' = Append(eventStream, "PROVIDER_ERROR")]_vars

\* C15, as the code has it: a call that performed initialization and returns
\* nil, and a call that returns "initialization canceled", the SDK's timeout
\* or "factory not ready", calls emitEvent once, with PROVIDER_READY
\* respectively PROVIDER_ERROR, and emitEvent delivers the event unless the
\* provider is shut down or the buffer is full; a call refused because of
\* shutdown, a fast-path return and every other step of Init emit nothing.
C15_InitEmitsUnlessShutdown ==
    [][\A i \in InitIds :
         initPc'[i] # initPc[i] =>
            IF InitReturns(i) /\ EventAccepted
               /\ initRes'[i] \in {"canceled", "notReady", "factoryNotReady"}
            THEN eventStream' = Append(eventStream, "PROVIDER_ERROR")
            ELSE IF InitReturns(i) /\ EventAccepted /\ initRes'[i] = "nil"
                    /\ initVia'[i] \in {"readyBranch", "ctxBranch"}
                 THEN eventStream' = Append(eventStream, "PROVIDER_READY")
                 ELSE eventStream' = eventStream]_vars

\* One call was cancelled and the next one initialized the provider; both
\* events are in the channel.
C15_Witness ==
    /\ initRes = <<"canceled", "nil">>
    /\ initVia[2] \in {"readyBranch", "ctxBranch"}
    /\ eventStream = <<"PROVIDER_ERROR", "PROVIDER_READY">>

\* C16: the client is set to nil and destroyed only after every
\* BlockUntilReady goroutine spawned by an Init call has finished, however
\* many Init calls raced or were cancelled; when the Shutdown call that tears
\* down has returned, with nil or an error, none is still running.
C16_DestroyAfterReadinessJoin ==
    LET teardown == \/ destroyPc # "none"
                    \/ client = "nil"
                    \/ sdkDestroyed
                    \/ \E j \in ShutIds : casWon[j] /\ shutPc[j] = "returned"
    IN  teardown => /\ initWg = 0
                    /\ \A i \in InitIds : burPc[i] \in {"none", "done"}

\* Both Init calls spawned a readiness goroutine, one of them was cancelled,
\* and the client has been destroyed.
C16_Witness ==
    /\ burSpawned = 2
    /\ \E i \in InitIds : initRes[i] = "canceled"
    /\ sdkDestroyed
    /\ \E j \in ShutIds : casWon[j] /\ shutPc[j] = "returned"

\* The destroy goroutine exists while a started monitor has not yet exited.
DestroyWhileMonitoring ==
    /\ destroyPc # "none"
    /\ monitorStarted > 0
    /\ monitorDone = 0

C18_EvalNeverSeesTeardown ==
    /\ evalPc = "inCall" => /\ mtxReaders > 0
                            /\ client = "set"
                            /\ ~sdkDestroyed
                            /\ destroyPc \in {"none", "lock"}
    /\ "eval" \notin panics

\* An evaluation is inside its client call while Shutdown, whose flag is
\* already set, waits for the read lock to be released.
C18_Witness ==
    /\ evalPc = "inCall"
    /\ shutdown = shutdownStateActive
    /\ \E j \in ShutIds : shutPc[j] = "stopMonitor"

\* C19: every read path that calls the client, each evaluation and Track,
\* holds the shared lock and has re-checked the shutdown flag, so that none
\* calls the client after it has been set to nil.
C19_ReadPathsNeverSeeNilClient ==
    /\ evalPc = "inCall" => client = "set"
    /\ trackPc = "call" => client = "set"
    /\ panics \cap {"eval", "track"} = {}

\* C20: no send on the event channel occurs after the channel has been
\* closed: the channel is closed only once the shutdown flag is set, every
\* event put on the channel by Init or by the monitor is put on the open
\* channel, and emitEvent never panics.
C20_NoSendAfterClose ==
    /\ [](eventClosed > 0 => shutdown = shutdownStateActive)
    /\ []("emit" \notin panics)
    /\ [][Len(eventStream') > Len(eventStream) => eventClosed = 0]_vars

\* The monitor is inside emitEvent, past its second shutdown test and holding
\* the read lock, while Shutdown, whose flag is set, waits for p.mtx.
C20_Witness ==
    /\ monitorPc = "emitSend"
    /\ mtxReaders > 0
    /\ shutdown = shutdownStateActive
    /\ \E j \in ShutIds : shutPc[j] = "stopMonitor"

\* C21: emitEvent never blocks: the buffer never holds more events than its
\* capacity, and while it is full a publisher's step leaves the buffered
\* events as they are (only a subscriber's receive changes them).
C21_FullBufferDrops ==
    /\ [](Len(eventStream) <= EventCap)
    /\ [][Len(eventStream) = EventCap =>
            \/ eventStream' = eventStream
            \/ eventStream' = Tail(eventStream)]_vars

\* The second Init call initialized the provider and returned while the
\* buffer was full: its PROVIDER_READY is not among the buffered events.
C21_Witness ==
    /\ shutdown = shutdownStateInactive
    /\ initRes[2] = "nil"
    /\ initVia[2] \in {"readyBranch", "ctxBranch"}
    /\ eventStream = <<"PROVIDER_ERROR", "PROVIDER_CONFIGURATION_CHANGED">>

\* The first n events of the overflow scenario, in the order published.
FirstEvents(n) ==
    [k \in 1..n |-> k]

C23_ValidationOrder ==
    [][(evalPc = "validate" /\ evalPc' # "validate") =>
        LET ready == StatusOf(shutdown = shutdownStateActive) = "Ready"
            code  == IF ~ready THEN "PROVIDER_NOT_READY"
                     ELSE IF evalCtx THEN "GENERAL"
                     ELSE IF evalKey = "absent" THEN "TARGETING_KEY_MISSING"
                     ELSE IF evalKey = "notString" THEN "INVALID_CONTEXT"
                     ELSE "ok"
        IN  /\ code = "ok" => evalPc' = "check" /\ evalRes' = "none"
            /\ code # "ok" => evalPc' = "idle" /\ evalRes' = code
            /\ mtxReaders' = mtxReaders
            /\ panics' = panics]_vars

\* A ready provider has refused a targeting key that is not a string.
C23_Witness ==
    /\ evalPc = "idle"
    /\ evalRes = "INVALID_CONTEXT"
    /\ StatusOf(shutdown = shutdownStateActive) = "Ready"

\* C24: an evaluation that finds the shutdown flag set before it reads the
\* client returns the default with error code PROVIDER_NOT_READY.
C24_ShutdownRaceNotReady ==
    [][(evalPc \in {"validate", "check", "recheck"} /\ evalPc' = "idle"
          /\ shutdown = shutdownStateActive)
        => evalRes' = "PROVIDER_NOT_READY"]_vars

\* C25: every map returned by Metrics() has initialized = ready =
\* (status is Ready) and carries splits_count only when ready; a call that
\* started after the shutdown flag was set reports NotReady and not ready.
C25_MetricsConsistent ==
    (metricsPc = "idle" /\ metricsRes # NoMetrics) =>
        /\ metricsRes.initialized = metricsRes.ready
        /\ metricsRes.ready = (metricsRes.status = "Ready")
        /\ metricsRes.splits_count => metricsRes.ready
        /\ metricsShutdown =>
              metricsRes.status = "NotReady" /\ ~metricsRes.ready

\* A Metrics call that started after the flag was set has returned while the
\* SDK still reports ready.
C25_Witness ==
    /\ metricsPc = "idle"
    /\ metricsRes # NoMetrics
    /\ metricsShutdown
    /\ FactoryIsReady

\* C26: the interval New chooses is never below the minimum of 5 seconds:
\* 0 gives the default of 30 seconds, any other value below 5 seconds gives
\* 5 seconds, and a value of at least 5 seconds is kept.
C26_IntervalClamped ==
    newPc = "done" =>
        /\ monitoringInterval >= 5
        /\ cfgMonitoringInterval = 0 => monitoringInterval = 30
        /\ (cfgMonitoringInterval # 0 /\ cfgMonitoringInterval < 5)
              => monitoringInterval = 5
        /\ cfgMonitoringInterval >= 5
              => monitoringInterval = cfgMonitoringInterval

\* New has raised a negative interval to the minimum.
C26_Witness ==
    newPc = "done" /\ cfgMonitoringInterval < 0 /\ monitoringInterval = 5

\* C27: the monitor goroutine is never started once stopMonitor is closed;
\* an Init that enters its locked section after the close returns "provider
\* was shut down during initialization" and leaves the monitor alone.
C27_NoMonitorAfterStop ==
    [][/\ monitorStarted' # monitorStarted =>
            stopClosed = 0 /\ shutdown = shutdownStateInactive
       /\ \A i \in InitIds :
            (initPc[i] = "locked" /\ initPc'[i] # "locked" /\ stopClosed > 0)
               => /\ initPc'[i] = "returned"
                  /\ initRes'[i] = "shutDuringInit"
                  /\ monitorStarted' = monitorStarted
                  /\ monitorPc' = monitorPc]_vars

\* An Init has returned the shutdown error, stopMonitor is closed and no
\* monitor was ever started.
C27_Witness ==
    /\ \E i \in InitIds :
         initPc[i] = "returned" /\ initRes[i] = "shutDuringInit"
    /\ stopClosed > 0
    /\ monitorStarted = 0

\* C28: when an Init call started the monitor, the Shutdown call that tears
\* down finds wasInitialized true and waits for the monitor; and once
\* stopMonitor is closed the monitor closes monitorDone, so that the wait
\* ends.
C28_StartedMonitorIsAwaited ==
    /\ [][\A j \in ShutIds :
            (shutPc[j] = "stopMonitor" /\ shutPc'[j] # "stopMonitor"
               /\ monitorStarted > 0)
            => wasInitialized'[j] /\ shutPc'[j] = "waitMonitor"]_vars
    /\ (stopClosed > 0 /\ monitorStarted > 0) ~> (monitorDone > 0)
    /\ (monitorStarted > 0 /\ \E j \in ShutIds : shutPc[j] = "waitMonitor")
          ~> (\A j \in ShutIds : shutPc[j] # "waitMonitor")

\* A Shutdown call has come out of its wait for a started monitor through
\* monitorDone, without an error.
C28_Witness ==
    \E j \in ShutIds :
        /\ shutPc[j] = "lockInitMu"
        /\ wasInitialized[j]
        /\ shutdownErr[j] = "nil"
        /\ monitorStarted > 0
        /\ monitorDone > 0

\* C29: the monitor goroutine closes monitorDone exactly once on every way
\* out: the stop signal, the early returns on a nil factory or manager, and
\* a panic in any of its steps, which is recovered and goes no further.
C29_MonitorDoneClosedOnce ==
    /\ monitorDone <= 1
    /\ (monitorPc = "exited") <=> (monitorDone = 1)
    /\ "monitor" \notin panics

\* The goroutine has gone after a panic under its read lock, before any stop
\* signal, and monitorDone is closed.
C29_Witness ==
    /\ monitorPc = "exited"
    /\ monitorDone = 1
    /\ stopClosed = 0
    /\ mtxReaders > 0

\* C30: at most one BlockUntilReady goroutine spawned by InitWithContext is
\* running at any time, also after a caller has returned on the cancellation
\* of its context while its goroutine goes on.
C30_OneReadinessWait ==
    Cardinality({i \in InitIds : burPc[i] = "running"}) <= 1

Registered ==
    {i \in InitIds : burPc[i] \in {"running", "returned", "sent"}}

\* C32: an Init call that returns an error has started no monitor, and no
\* step of an Init call sets the shutdown flag, closes stopMonitor or the
\* event channel, or sets the client to nil; the readiness goroutine of a
\* cancelled call stays counted in the wait group until it has finished.
C32_FailedInitLeavesLifecycle ==
    /\ [][\A i \in InitIds :
            /\ initPc'[i] # initPc[i]
                 => /\ shutdown' = shutdown
                    /\ stopClosed' = stopClosed
                    /\ eventClosed' = eventClosed
                    /\ client' = client
                    /\ (monitorStarted' # monitorStarted \/ monitorPc' # monitorPc)
                          => initPc'[i] = "emitReady"
            /\ (initPc[i] = "emitReady" /\ initPc'[i] # "emitReady")
                 => initPc'[i] = "returned" /\ initRes'[i] = "nil"
            /\ (InitReturns(i) /\ initRes'[i] = "canceled")
                 => /\ burPc[i] \in {"running", "returned"}
                    /\ burPc' = burPc
                    /\ initWg' = initWg]_vars
    /\ [](initWg = Cardinality(Registered))

\* A cancelled call has returned; its goroutine is still in BlockUntilReady
\* and counted in the wait group, and nothing of the lifecycle has moved.
C32_Witness ==
    \E i \in InitIds :
        /\ initPc[i] = "returned" /\ initRes[i] = "canceled"
        /\ burPc[i] = "running"
        /\ initWg = 1
        /\ monitorStarted = 0 /\ stopClosed = 0 /\ eventClosed = 0
        /\ shutdown = shutdownStateInactive /\ client = "set"

\* C33: the client is destroyed, set to nil and the event channel closed
\* together in one section under the exclusive lock, the destruction first:
\* whenever the client is nil it has been destroyed.
C33_DestroyedWithNullOut ==
    client = "nil" => sdkDestroyed

\* C33, as the code has it: the client is set to nil and the event channel
\* closed together under the exclusive lock, and Destroy runs afterwards,
\* outside the lock, on the saved handle.  A reader never finds a client
\* that is not nil and is destroyed or being destroyed, nor a nil client with
\* the event channel open.
C33_NullOutThenDestroy ==
    /\ (client = "nil") <=> (eventClosed = 1)
    /\ sdkDestroyed => client = "nil"
    /\ destroyPc = "destroy" => client = "nil"
    /\ evalPc = "inCall" => client = "set" /\ ~sdkDestroyed

\* A reader holds the read lock after the locked section, while Destroy has
\* yet to run: the client is nil and the event channel closed.
C33_Witness ==
    /\ destroyPc = "destroy"
    /\ ~sdkDestroyed
    /\ client = "nil"
    /\ eventClosed = 1
    /\ evalPc = "recheck"
    /\ mtxReaders > 0

\* C34: splitsChanged(old, current) is true exactly when the two maps
\* differ (a name added, removed, or with another change number) and false
\* exactly when they are equal, empty maps included.
C34_ChangedIffDifferent ==
    comparePc = "done" => (changed <=> oldSplits # currentSplits)

\* A name was removed and nothing else differs: reported as a change.
C34_Witness ==
    /\ comparePc = "done"
    /\ changed
    /\ DOMAIN currentSplits # DOMAIN oldSplits
    /\ DOMAIN currentSplits \subseteq DOMAIN oldSplits
    /\ \A name \in DOMAIN currentSplits : oldSplits[name] = currentSplits[name]

\* C35: a tick of the monitor goes into emitEvent and replaces the baseline
\* by the current snapshot when the two differ, and otherwise does neither;
\* before shutdown that emitEvent sends one PROVIDER_CONFIGURATION_CHANGED
\* event; the baseline is written by the monitor goroutine alone, in its
\* prologue and in such a tick.
C35_TickEmitsIffChanged ==
    [][/\ monitorPc = "loop" =>
            /\ (monitorPc' = "emitCheck")
                  <=> (lastKnownSplits' # lastKnownSplits)
            /\ monitorPc' = "emitCheck"
                  => /\ Snapshot(lastKnownSplits) # Snapshot(sdkVer)
                     /\ lastKnownSplits' = sdkVer
                     /\ eventStream' = eventStream
       /\ (monitorPc = "emitCheck" /\ monitorPc' # "emitCheck"
              /\ shutdown = shutdownStateInactive)
            => monitorPc' = "emitRLock"
       /\ (monitorPc = "emitRecheck" /\ monitorPc' # "emitRecheck"
              /\ shutdown = shutdownStateInactive)
            => monitorPc' = "emitSend"
       /\ (monitorPc = "emitSend" /\ monitorPc' # "emitSend")
            => eventStream' =
                 IF Len(eventStream) < EventCap
                 THEN Append(eventStream, "PROVIDER_CONFIGURATION_CHANGED")
                 ELSE eventStream
       /\ (Len(eventStream') > Len(eventStream)
              /\ eventStream'[Len(eventStream')]
                    = "PROVIDER_CONFIGURATION_CHANGED")
            => monitorPc = "emitSend"
       /\ lastKnownSplits' # lastKnownSplits
            => /\ monitorPc \in {"start", "loop"}
               /\ monitorPc' # monitorPc
               /\ lastKnownSplits' = sdkVer]_vars

\* Before shutdown the monitor has seen a change, sent its event and taken
\* the new snapshot as baseline.
C35_Witness ==
    /\ monitorPc = "loop"
    /\ shutdown = shutdownStateInactive
    /\ sdkVer > 0
    /\ lastKnownSplits = sdkVer
    /\ eventStream = <<"PROVIDER_READY", "PROVIDER_CONFIGURATION_CHANGED">>

\* The Init calls that emit PROVIDER_READY: about to, or done.
ReadyEmitters ==
    {i \in InitIds :
        \/ initPc[i] = "emitReady"
        \/ /\ initPc[i] = "returned" /\ initRes[i] = "nil"
           /\ initVia[i] \in {"readyBranch", "ctxBranch"}}

\* C36: whatever Init and Shutdown calls are made and however they
\* interleave, the monitor goroutine is started at most once, monitorDone is
\* closed at most once and PROVIDER_READY is emitted at most once.
C36_MonitorStartedOnce ==
    /\ [](monitorStarted <= 1)
    /\ [](monitorDone <= 1)
    /\ [](Cardinality(ReadyEmitters) <= monitorStarted)
    /\ [][(Len(eventStream') > Len(eventStream)
             /\ eventStream'[Len(eventStream')] = "PROVIDER_READY")
           => \E i \in InitIds : initPc[i] = "emitReady" /\ InitReturns(i)]_vars

\* Two Init calls have returned nil and a Shutdown has torn down: one
\* monitor was started and has closed monitorDone.
C36_Witness ==
    /\ \A i \in InitIds : initPc[i] = "returned" /\ initRes[i] = "nil"
    /\ Cardinality(ReadyEmitters) = 1
    /\ monitorStarted = 1
    /\ monitorDone = 1
    /\ \E j \in ShutIds : shutPc[j] = "returned" /\ casWon[j]

\* The goroutines that take the provider's locks.
Goroutines ==
    {<<"init", i>> : i \in InitIds} \cup {<<"shut", j>> : j \in ShutIds}
        \cup {<<"destroy", 0>>, <<"eval", 0>>}

HoldsInitMu(g) ==
    initMu = g

\* g holds p.mtx: exclusively, or as the evaluation inside its read lock.
HoldsMtx(g) ==
    \/ mtxWriter = g
    \/ g = <<"eval", 0>> /\ evalPc \in {"recheck", "inCall"}

\* g is at p.initMu.Lock() and another goroutine has the mutex.
WaitsInitMu(g) ==
    /\ initMu # <<>>
    /\ \/ g[1] = "init" /\ initPc[g[2]] = "lockInitMu"
       \/ g[1] = "shut" /\ shutPc[g[2]] = "lockInitMu"

\* g is at p.mtx.Lock() or p.mtx.RLock() and cannot have it yet.
WaitsMtx(g) ==
    \/ /\ mtxWriter # g
       /\ mtxWriter # <<>> \/ mtxReaders > 0
       /\ \/ g[1] = "init" /\ initPc[g[2]] = "locked"
          \/ g[1] = "shut" /\ shutPc[g[2]] = "stopMonitor"
          \/ g = <<"destroy", 0>> /\ destroyPc = "lock"
    \/ /\ mtxWriter # <<>>
       /\ \/ g[1] = "init" /\ initPc[g[2]] = "do"
          \/ g = <<"eval", 0>> /\ evalPc = "rlock"

\* g waits for a lock that h holds.
WaitsFor(g, h) ==
    /\ g # h
    /\ \/ WaitsInitMu(g) /\ HoldsInitMu(h)
       \/ WaitsMtx(g) /\ HoldsMtx(h)

\* The goroutines reached from g along WaitsFor in at most n steps.
RECURSIVE WaitChain(_, _)
WaitChain(g, n) ==
    IF n = 0 THEN {}
    ELSE LET next == {h \in Goroutines : WaitsFor(g, h)}
         IN  next \cup UNION {WaitChain(h, n - 1) : h \in next}

\* C37: Init and Shutdown cannot deadlock on p.initMu and p.mtx: a goroutine
\* inside p.mtx.Lock() of Init holds p.initMu, Shutdown holds p.mtx only in
\* its stopMonitor section and never while it waits for p.initMu, a holder
\* of p.mtx waits for no lock, and no goroutine waits, along a chain of
\* locks held, for itself.
C37_NoLockCycle ==
    /\ \A i \in InitIds :
         mtxWriter = <<"init", i>> => initMu = <<"init", i>>
    /\ \A j \in ShutIds :
         mtxWriter = <<"shut", j>>
            => shutPc[j] = "stopMonitor" /\ initMu # <<"shut", j>>
    /\ \A g \in Goroutines :
         HoldsMtx(g) => ~WaitsInitMu(g) /\ ~WaitsMtx(g)
    /\ \A g \in Goroutines : g \notin WaitChain(g, Cardinality(Goroutines))

\* One Init call holds p.initMu and waits for p.mtx, which Shutdown holds in
\* its stopMonitor section, while the other Init call waits for p.initMu.
C37_Witness ==
    \E i, k \in InitIds, j \in ShutIds :
        /\ initMu = <<"init", i>> /\ initPc[i] = "locked"
        /\ mtxWriter = <<"shut", j>>
        /\ WaitsFor(<<"init", i>>, <<"shut", j>>)
        /\ WaitsFor(<<"init", k>>, <<"init", i>>)

\* C38: the readiness goroutine never blocks on its send: whenever it holds the
\* result of BlockUntilReady the one-slot readyErr of its call can take it,
\* whether or not the Init call is still receiving, and every goroutine that
\* was spawned goes on to initWg.Done.
C38_ReadinessSendNeverBlocks ==
    /\ [](\A i \in InitIds : burPc[i] = "returned" => ENABLED BurSend(i))
    /\ \A i \in InitIds : (burPc[i] = "running") ~> (burPc[i] = "done")

\* A cancelled Init has returned, and its goroutine delivered the result into
\* the buffer afterwards and finished.
C38_Witness ==
    \E i \in InitIds :
        /\ initPc[i] = "returned"
        /\ initRes[i] = "canceled"
        /\ burPc[i] = "done"
        /\ readyErr[i] # "empty"
        /\ initWg = 0

====
